---- MODULE Spec2Model ----
(***************************************************************************)
(* State-machine model of the loopor LV2 looper engine                     *)
(* (loopor-lv2/source/loopor.cpp, class Looper).                           *)
(*                                                                         *)
(* The engine state is the set of Looper members that the commands and the *)
(* per-sample loop of Looper::run read and write.  One action models one   *)
(* button callback (with everything it calls) or one iteration of the      *)
(* sample loop of Looper::run.                                             *)
(*                                                                         *)
(* Accesses past the end of m_dubs (index >= NR_OF_DUBS) and past the end  *)
(* of the storage arrays (index >= m_storageSize) are undefined behaviour  *)
(* in the source: a write lands outside the modelled object and is not     *)
(* recorded, a read yields an arbitrary value.                             *)
(***************************************************************************)
EXTENDS Integers, FiniteSets, Sequences, TLC

(***************************************************************************)
(* Bounds of the model.                                                    *)
(***************************************************************************)
\* Capacity of the dub array (128 in the source, scaled down).
NR_OF_DUBS == 2
\* Capacity of the dub array where chained overdubs are followed.
OverdubDubs == 3
\* m_storageSize: samples per channel in the arena (scaled down).
StorageSize == 3
\* How far the counters may run past the arrays before the model stops
\* following them.
MaxOverrun == 1

\* Longest take whose boundary fade is followed.
MaxTakeLength == 130
\* Storage offsets of the take whose boundary fade is followed.
FadeOffsets == {0, 3}
\* NR_OF_BLEND_SAMPLES (not scaled).
NR_OF_BLEND_SAMPLES == 64

\* Clock ticks per second of m_now.
TicksPerSecond == 2
\* The latest time, in ticks, up to which a button is followed.
MaxNow == 6
\* Durations nrOfSamples / m_sampleRate of a block, in ticks.
BlockTicks == 0 .. 2

\* Decibel values offered on the threshold port.
ThresholdDbs == {-100, -90, -20}
\* Peak amplitudes max(|in1|, |in2|) of an input sample, in 1/1000 of full scale.
Amplitudes == {0, 100}

INACTIVE == "LOOPER_STATE_INACTIVE"
WAITING == "LOOPER_STATE_WAITING_FOR_THRESHOLD"
RECORDING == "LOOPER_STATE_RECORDING"
PLAYING == "LOOPER_STATE_PLAYING"
State == {INACTIVE, WAITING, RECORDING, PLAYING}

VARIABLES
    m_state,             \* State m_state
    m_threshold,         \* float m_threshold (linear, 1/1000 of full scale)
    m_currentLoopIndex,  \* size_t m_currentLoopIndex
    m_loopLength,        \* size_t m_loopLength
    m_nrOfUsedSamples,   \* size_t m_nrOfUsedSamples
    m_nrOfDubs,          \* size_t m_nrOfDubs
    m_maxUsedDubs,       \* size_t m_maxUsedDubs
    m_dubs,              \* Dub m_dubs[NR_OF_DUBS]
    \* Observation variables: what the last step was and did.
    lastOp,              \* the operation performed by the last step
    lastAmp,             \* peak amplitude of the sample of the last step, or -1
    capAt,               \* arena index written by the last sample step, or -1
    capSlot,             \* dub index whose length the last sample step grew, or -1
    committed,           \* last step committed a take (finishRecording, line 547-578)
    began,               \* last step reserved a slot (startRecording, line 524-529)
    undoSnap,            \* the engine before the last Undo, kept over a Redo that follows it
    redoEpoch,           \* "none" / "undone" / "taken": takes begun since the last Undo
    sinceStart,          \* only samples were processed since the last reserved slot
    sinceReset,          \* no take was committed since the last Reset
    script,              \* <<"init", 0>>, <<"started", n>> after Start in the constructed
                         \* engine and n samples at the threshold floor, <<"stopped", n>>
                         \* after the Stop that followed, <<"off", 0>> on any other run
    \* The boundary fade of finishRecording, followed for one take.
    m_storage,           \* float m_storage1[], m_storage2[]: the factor <<num, den>> by
                         \* which each stored sample differs from the captured one
    fadeDub,             \* the Dub whose commit is followed
    fadeS,               \* the loop variable s of the fade loop (line 562)
    fadePhase,           \* "none" / "fading" / "committed"
    \* One MomentaryButton and the clock of Looper::run.
    m_now,               \* double m_now, in ticks
    m_lastState,         \* bool m_lastState
    m_lastChangeTime,    \* double m_lastChangeTime
    m_lastClickTime,     \* double m_lastClickTime
    callback,            \* the arguments of m_callback in the last run, or NoCallback
    cbNow,               \* the time passed to the last MomentaryButton::run
    cbChanged,           \* the input of the last run differed from the one before
    cbEarlier,           \* time of the latest press before the last run, or -1
    pressedAt            \* time of the latest press so far, or -1

engineVars == <<m_state, m_threshold, m_currentLoopIndex, m_loopLength,
                m_nrOfUsedSamples, m_nrOfDubs, m_maxUsedDubs, m_dubs>>
obsVars == <<lastOp, lastAmp, capAt, capSlot, committed, began, undoSnap,
             redoEpoch, sinceStart, sinceReset, script>>
fadeVars == <<m_storage, fadeDub, fadeS, fadePhase>>
buttonVars == <<m_now, m_lastState, m_lastChangeTime, m_lastClickTime,
                callback, cbNow, cbChanged, cbEarlier, pressedAt>>
vars == <<engineVars, obsVars, fadeVars, buttonVars>>

(***************************************************************************)
(* class Dub                                                               *)
(***************************************************************************)
Dub == [m_storageOffset |-> 0, m_length |-> 0, m_startIndex |-> 0]

\* Values a read past the end of m_dubs may yield.
OobValues == 0 .. StorageSize
OobDubs == [m_storageOffset : OobValues, m_length : OobValues, m_startIndex : OobValues]

\* The possible values of m_dubs[i] when read.
DubRead(dubs, i) == IF i \in DOMAIN dubs THEN {dubs[i]} ELSE OobDubs

(***************************************************************************)
(* dbToFloat: 10^(db/20), 0 at or below -90 dB.  Values in 1/1000 of full  *)
(* scale; powf is tabulated on the multiples of 20 dB.                     *)
(***************************************************************************)
Pow10Db(db) ==
    CASE db = 0 -> 1000
      [] db = -20 -> 100
      [] db = -40 -> 10
      [] db = -60 -> 1
      [] OTHER -> 0

dbToFloat(db) == IF db <= -90 THEN 0 ELSE Pow10Db(db)

(***************************************************************************)
(* The engine as a record, so that the methods compose as in the source.   *)
(***************************************************************************)
Eng == [state |-> m_state,
        currentLoopIndex |-> m_currentLoopIndex,
        loopLength |-> m_loopLength,
        nrOfUsedSamples |-> m_nrOfUsedSamples,
        nrOfDubs |-> m_nrOfDubs,
        maxUsedDubs |-> m_maxUsedDubs,
        dubs |-> m_dubs]

\* reset that keeps the redo history (m_maxUsedDubs not cleared).
reset_keepRedo(s) ==
    [s EXCEPT !.nrOfDubs = 0,
              !.nrOfUsedSamples = 0,
              !.state = INACTIVE,
              !.currentLoopIndex = 0,
              !.loopLength = 0]

\* Looper::reset
reset(s) ==
    [s EXCEPT !.nrOfDubs = 0,
              !.maxUsedDubs = 0,
              !.nrOfUsedSamples = 0,
              !.state = INACTIVE,
              !.currentLoopIndex = 0,
              !.loopLength = 0]

\* NR_OF_DUBS as the engine sees it: the declared size of m_dubs
\* (NR_OF_DUBS slots in Spec, OverdubDubs slots in OverdubSpec).
nrOfDubSlots(s) == Cardinality(DOMAIN s.dubs)

\* startRecording that does not look at the memory left.
startRecording_noMemCheck(s) ==
    IF s.nrOfDubs >= nrOfDubSlots(s) THEN s
    ELSE [s EXCEPT !.dubs[s.nrOfDubs].m_storageOffset = s.nrOfUsedSamples,
                   !.dubs[s.nrOfDubs].m_length = 0,
                   !.state = WAITING]

\* startRecording that does not clear the length of the reserved slot.
startRecording_keepLength(s) ==
    IF s.nrOfDubs >= nrOfDubSlots(s) THEN s
    ELSE IF s.nrOfUsedSamples >= StorageSize THEN s
    ELSE [s EXCEPT !.dubs[s.nrOfDubs].m_storageOffset = s.nrOfUsedSamples,
                   !.state = WAITING]

\* Looper::startRecording
startRecording(s) ==
    IF s.nrOfDubs >= nrOfDubSlots(s) THEN s
    ELSE IF s.nrOfUsedSamples >= StorageSize THEN s
    ELSE [s EXCEPT !.dubs[s.nrOfDubs].m_storageOffset = s.nrOfUsedSamples,
                   !.dubs[s.nrOfDubs].m_length = 0,
                   !.state = WAITING]

\* startRecording reserved a slot (did not return early).
startAccepted(s) == s.nrOfDubs < nrOfDubSlots(s) /\ s.nrOfUsedSamples < StorageSize

\* finishRecording that returns to PLAYING from every abandoned take.
finishRecording_alwaysPlaying(s) ==
    IF s.state = WAITING
    THEN [s EXCEPT !.state = PLAYING]
    ELSE [s EXCEPT !.state = PLAYING,
                   !.loopLength = IF s.nrOfDubs = 0 THEN s.dubs[0].m_length ELSE @,
                   !.currentLoopIndex = IF s.nrOfDubs = 0 THEN 0 ELSE @,
                   !.nrOfDubs = s.nrOfDubs + 1,
                   !.maxUsedDubs = s.nrOfDubs + 1]

\* finishRecording that keeps a larger redo count.
finishRecording_keepMax(s) ==
    IF s.state = WAITING
    THEN [s EXCEPT !.state = IF s.nrOfDubs = 0 THEN INACTIVE ELSE PLAYING]
    ELSE [s EXCEPT !.state = PLAYING,
                   !.loopLength = IF s.nrOfDubs = 0 THEN s.dubs[0].m_length ELSE @,
                   !.currentLoopIndex = IF s.nrOfDubs = 0 THEN 0 ELSE @,
                   !.nrOfDubs = s.nrOfDubs + 1,
                   !.maxUsedDubs = IF @ > s.nrOfDubs + 1 THEN @ ELSE s.nrOfDubs + 1]

\* finishRecording that commits a take that never met the threshold.
finishRecording_commitWaiting(s) ==
    [s EXCEPT !.state = PLAYING,
              !.loopLength = IF s.nrOfDubs = 0 THEN s.dubs[0].m_length ELSE @,
              !.currentLoopIndex = IF s.nrOfDubs = 0 THEN 0 ELSE @,
              !.nrOfDubs = s.nrOfDubs + 1,
              !.maxUsedDubs = s.nrOfDubs + 1]

\* Looper::finishRecording.  The fade loop (lines 559-571) writes the stored
\* samples only and changes none of the counters; it is fadeStep, below.
finishRecording(s) ==
    IF s.state = WAITING
    THEN [s EXCEPT !.state = IF s.nrOfDubs = 0 THEN INACTIVE ELSE PLAYING]
    ELSE [s EXCEPT !.state = PLAYING,
                   !.loopLength = IF s.nrOfDubs = 0 THEN s.dubs[0].m_length ELSE @,
                   !.currentLoopIndex = IF s.nrOfDubs = 0 THEN 0 ELSE @,
                   !.nrOfDubs = s.nrOfDubs + 1,
                   !.maxUsedDubs = s.nrOfDubs + 1]

\* A stored sample multiplied by float(s) / length (lines 564-569).
Scale(g, s, length) == <<g[1] * s, g[2] * length>>

\* lines 564-570: iteration s of the fade loop; startIndex and endIndex have
\* been stepped s times from the edges of the take.
fadeStep(st, s, length, dub) ==
    LET startIndex == dub.m_storageOffset + s
        endIndex == dub.m_storageOffset + dub.m_length - 1 - s
        st1 == [st EXCEPT ![startIndex] = Scale(@, s, length)]
    IN  [st1 EXCEPT ![endIndex] = Scale(@, s, length)]

\* line 559: the number of samples faded at each edge.
blendLength(dub) ==
    IF dub.m_length > NR_OF_BLEND_SAMPLES THEN NR_OF_BLEND_SAMPLES ELSE dub.m_length

\* undo that does not stop the loop when the last track is deactivated.
undo_keepLoop(s) ==
    LET s1 == IF s.state = RECORDING THEN finishRecording(s) ELSE s
    IN  IF s1.nrOfDubs = 0 THEN {s1}
        ELSE { [s1 EXCEPT !.nrOfDubs = s1.nrOfDubs - 1,
                          !.nrOfUsedSamples = dub.m_storageOffset]
               : dub \in DubRead(s1.dubs, s1.nrOfDubs - 1) }

\* undo that does not finish a take in progress first.
undo_noFinish(s) ==
    IF s.nrOfDubs = 0 THEN {s}
    ELSE { [s EXCEPT !.nrOfDubs = s.nrOfDubs - 1,
                     !.nrOfUsedSamples = dub.m_storageOffset,
                     !.loopLength = IF s.nrOfDubs - 1 = 0 THEN 0 ELSE @,
                     !.currentLoopIndex = IF s.nrOfDubs - 1 = 0 THEN 0 ELSE @]
           : dub \in DubRead(s.dubs, s.nrOfDubs - 1) }

\* undo that does not give the samples of the deactivated track back.
undo_keepSamples(s) ==
    LET s1 == IF s.state = RECORDING THEN finishRecording(s) ELSE s
    IN  IF s1.nrOfDubs = 0 THEN {s1}
        ELSE { [s1 EXCEPT !.nrOfDubs = s1.nrOfDubs - 1,
                          !.loopLength = IF s1.nrOfDubs - 1 = 0 THEN 0 ELSE @,
                          !.currentLoopIndex = IF s1.nrOfDubs - 1 = 0 THEN 0 ELSE @] }

\* Looper::undo.  A set: the deactivated slot is read, possibly past the array.
undo(s) ==
    LET s1 == IF s.state = RECORDING THEN finishRecording(s) ELSE s
    IN  IF s1.nrOfDubs = 0 THEN {s1}
        ELSE { [s1 EXCEPT !.nrOfDubs = s1.nrOfDubs - 1,
                          !.nrOfUsedSamples = dub.m_storageOffset,
                          !.loopLength = IF s1.nrOfDubs - 1 = 0 THEN 0 ELSE @,
                          !.currentLoopIndex = IF s1.nrOfDubs - 1 = 0 THEN 0 ELSE @]
               : dub \in DubRead(s1.dubs, s1.nrOfDubs - 1) }

\* redo that takes the loop length from every redone track.
redo_alwaysRestore(s) ==
    IF s.state = RECORDING THEN {s}
    ELSE IF s.nrOfDubs = s.maxUsedDubs THEN {s}
    ELSE { [s EXCEPT !.nrOfUsedSamples = dub.m_storageOffset + dub.m_length,
                     !.currentLoopIndex = IF s.nrOfDubs = 0 THEN 0 ELSE @,
                     !.loopLength = dub.m_length,
                     !.nrOfDubs = s.nrOfDubs + 1]
           : dub \in DubRead(s.dubs, s.nrOfDubs) }

\* redo that does not restore the loop length with the first track.
redo_noRestore(s) ==
    IF s.state = RECORDING THEN {s}
    ELSE IF s.nrOfDubs = s.maxUsedDubs THEN {s}
    ELSE { [s EXCEPT !.nrOfUsedSamples = dub.m_storageOffset + dub.m_length,
                     !.currentLoopIndex = IF s.nrOfDubs = 0 THEN 0 ELSE @,
                     !.nrOfDubs = s.nrOfDubs + 1]
           : dub \in DubRead(s.dubs, s.nrOfDubs) }

\* redo that is not refused while a take is being recorded.
redo_whileRecording(s) ==
    IF s.nrOfDubs = s.maxUsedDubs THEN {s}
    ELSE { [s EXCEPT !.nrOfUsedSamples = dub.m_storageOffset + dub.m_length,
                     !.currentLoopIndex = IF s.nrOfDubs = 0 THEN 0 ELSE @,
                     !.loopLength = IF s.nrOfDubs = 0 THEN dub.m_length ELSE @,
                     !.nrOfDubs = s.nrOfDubs + 1]
           : dub \in DubRead(s.dubs, s.nrOfDubs) }

\* Looper::redo.  A set, as undo.
redo(s) ==
    IF s.state = RECORDING THEN {s}
    ELSE IF s.nrOfDubs = s.maxUsedDubs THEN {s}
    ELSE { [s EXCEPT !.nrOfUsedSamples = dub.m_storageOffset + dub.m_length,
                     !.currentLoopIndex = IF s.nrOfDubs = 0 THEN 0 ELSE @,
                     !.loopLength = IF s.nrOfDubs = 0 THEN dub.m_length ELSE @,
                     !.nrOfDubs = s.nrOfDubs + 1]
           : dub \in DubRead(s.dubs, s.nrOfDubs) }

(***************************************************************************)
(* One iteration of the sample loop of Looper::run (lines 322-394), for an *)
(* input sample of peak amplitude amp.                                     *)
(***************************************************************************)
\* a gate that opens only above the threshold.
thresholdExceeded(s, thr, amp) == s.state = WAITING /\ amp > thr

\* lines 329-334: threshold reached while waiting
thresholdReached(s, thr, amp) == s.state = WAITING /\ amp >= thr

\* Field update of m_dubs[i]; a write past the array is not recorded.
DubSetStart(dubs, i, v) ==
    IF i \in DOMAIN dubs THEN [dubs EXCEPT ![i].m_startIndex = v] ELSE dubs
DubIncLength(dubs, i) ==
    IF i \in DOMAIN dubs THEN [dubs EXCEPT ![i].m_length = @ + 1] ELSE dubs

sampleGate(s, thr, amp) ==
    IF thresholdReached(s, thr, amp)
    THEN [s EXCEPT !.dubs = DubSetStart(s.dubs, s.nrOfDubs, s.currentLoopIndex),
                   !.state = RECORDING]
    ELSE s

\* lines 337-344: capture
sampleCapture(s) ==
    IF s.state = RECORDING
    THEN [s EXCEPT !.nrOfUsedSamples = s.nrOfUsedSamples + 1,
                   !.dubs = DubIncLength(s.dubs, s.nrOfDubs)]
    ELSE s

\* lines 346-359: the active tracks whose window holds the loop index and
\* whose stored sample is added to the output by this iteration (none is in
\* INACTIVE, where run() returns after the pass-through loop, lines 312-320).
mixedDubs(s) ==
    IF s.state = INACTIVE THEN {}
    ELSE { t \in DOMAIN s.dubs :
             /\ t < s.nrOfDubs
             /\ s.currentLoopIndex >= s.dubs[t].m_startIndex
             /\ s.currentLoopIndex < s.dubs[t].m_startIndex + s.dubs[t].m_length }

\* lines 365-367: advance the loop index
sampleAdvance(s) ==
    IF s.nrOfDubs > 0 THEN [s EXCEPT !.currentLoopIndex = s.currentLoopIndex + 1] ELSE s

\* line 374: end of the loop or storage exhausted
loopEnd(s) == s.currentLoopIndex > s.loopLength \/ s.nrOfUsedSamples >= StorageSize

\* a wrap that also ends a take that still waits for the threshold.
sampleWrap_finishWaiting(s) ==
    IF loopEnd(s)
    THEN LET s1 == [s EXCEPT !.currentLoopIndex = 0]
         IN  IF s1.state \in {RECORDING, WAITING}
             THEN LET s2 == finishRecording(s1)
                  IN  IF s2.nrOfDubs > 1 THEN startRecording(s2) ELSE s2
             ELSE s1
    ELSE s

\* a wrap that never chains the next overdub.
sampleWrap_noChain(s) ==
    IF loopEnd(s)
    THEN LET s1 == [s EXCEPT !.currentLoopIndex = 0]
         IN  IF s1.state = RECORDING THEN finishRecording(s1) ELSE s1
    ELSE s

\* lines 374-393: wrap, finish the take, chain the next overdub
sampleWrap(s) ==
    IF loopEnd(s)
    THEN LET s1 == [s EXCEPT !.currentLoopIndex = 0]
         IN  IF s1.state = RECORDING
             THEN LET s2 == finishRecording(s1)
                  IN  IF s2.nrOfDubs > 1 THEN startRecording(s2) ELSE s2
             ELSE s1
    ELSE s

runSample(s, thr, amp) ==
    IF s.state = INACTIVE THEN s
    ELSE sampleWrap(sampleAdvance(sampleCapture(sampleGate(s, thr, amp))))

(***************************************************************************)
(* Steps                                                                   *)
(***************************************************************************)
NoSnap == [nrOfDubs |-> -1, loopLength |-> -1, currentLoopIndex |-> -1, state |-> "none",
           dubs |-> <<>>]
Snap(s) == [nrOfDubs |-> s.nrOfDubs, loopLength |-> s.loopLength,
            currentLoopIndex |-> s.currentLoopIndex, state |-> s.state,
            dubs |-> s.dubs]

\* The counters stay within what the model follows.
InModel(t) ==
    /\ t.nrOfDubs <= nrOfDubSlots(t) + MaxOverrun
    /\ t.nrOfUsedSamples <= StorageSize + MaxOverrun
    /\ \A i \in DOMAIN t.dubs : t.dubs[i].m_length <= StorageSize + MaxOverrun

SetEngine(t) ==
    /\ InModel(t)
    /\ m_state' = t.state
    /\ m_currentLoopIndex' = t.currentLoopIndex
    /\ m_loopLength' = t.loopLength
    /\ m_nrOfUsedSamples' = t.nrOfUsedSamples
    /\ m_nrOfDubs' = t.nrOfDubs
    /\ m_maxUsedDubs' = t.maxUsedDubs
    /\ m_dubs' = t.dubs
    /\ UNCHANGED <<fadeVars, buttonVars>>

\* The steps that call undo(), and those that finish a take on a button press.
UndoOps == {"Undo", "ResetUndo"}

\* Observations of a command step.
\*   op: the operation; fin: a take was committed; beg: a slot was reserved.
Observe(op, fin, beg) ==
    /\ lastOp' = op
    /\ lastAmp' = -1
    /\ capAt' = -1
    /\ capSlot' = -1
    /\ committed' = fin
    /\ began' = beg
    /\ undoSnap' = IF op \in UndoOps THEN Snap(Eng)
                   ELSE IF op = "Redo" /\ lastOp \in UndoOps THEN undoSnap
                   ELSE NoSnap
    /\ redoEpoch' = IF op \in UndoOps THEN "undone"
                    ELSE IF op \in {"Start", "Dub"} /\ beg /\ redoEpoch = "undone" THEN "taken"
                    ELSE redoEpoch
    /\ sinceStart' = beg
    /\ sinceReset' = IF op = "Reset" THEN TRUE ELSE sinceReset /\ ~fin
    /\ script' = IF op = "Start" /\ script[1] = "init" THEN <<"started", 0>>
                 ELSE IF op = "Stop" /\ script[1] = "started" THEN <<"stopped", script[2]>>
                 ELSE <<"off", 0>>

(***************************************************************************)
(* class MomentaryButton                                                   *)
(***************************************************************************)
NoCallback == [pressed |-> FALSE, interval |-> -1, doubleClick |-> FALSE]

\* The button as a record.
Button == [lastState |-> m_lastState,
           lastChangeTime |-> m_lastChangeTime,
           lastClickTime |-> m_lastClickTime]

\* MomentaryButton::run, for a connected button whose input is pressed
\* (*m_input > 0) or not: the button afterwards and the callback's arguments.
buttonRun(b, pressed, now) ==
    IF pressed = b.lastState
    THEN [button |-> b, cb |-> NoCallback]
    ELSE [button |-> [lastState |-> pressed,
                      lastChangeTime |-> now,
                      lastClickTime |-> IF pressed THEN now ELSE b.lastClickTime],
          cb |-> [pressed |-> pressed,
                  interval |-> now - b.lastChangeTime,
                  doubleClick |-> pressed /\ now - b.lastClickTime < TicksPerSecond]]

\* Member initialisers of MomentaryButton (lines 174-180) and m_now (line 454).
ButtonInit ==
    /\ m_now = 0
    /\ m_lastState = FALSE
    /\ m_lastChangeTime = 0
    /\ m_lastClickTime = 0
    /\ callback = NoCallback
    /\ cbNow = 0
    /\ cbChanged = FALSE
    /\ cbEarlier = -1
    /\ pressedAt = -1

\* The members of an engine constructed with n dub slots.
EngineInitWith(n) ==
    /\ m_state = INACTIVE
    /\ m_threshold = 0
    /\ m_currentLoopIndex = 0
    /\ m_loopLength = 0
    /\ m_nrOfUsedSamples = 0
    /\ m_nrOfDubs = 0
    /\ m_maxUsedDubs = 0
    /\ m_dubs = [i \in 0 .. n - 1 |-> Dub]
    /\ lastOp = "Init"
    /\ lastAmp = -1
    /\ capAt = -1
    /\ capSlot = -1
    /\ committed = FALSE
    /\ began = FALSE
    /\ undoSnap = NoSnap
    /\ redoEpoch = "none"
    /\ sinceStart = FALSE
    /\ sinceReset = TRUE
    /\ script = <<"init", 0>>

EngineInit == EngineInitWith(NR_OF_DUBS)

\* The constructed engine; no stored sample is followed.
Init ==
    /\ EngineInit
    /\ m_storage = <<>>
    /\ fadeDub = Dub
    /\ fadeS = 0
    /\ fadePhase = "none"
    /\ ButtonInit

\* A double click on the Activate, Reset or Dub button (lines 237-241,
\* 255-259, 291-295): reset().
Reset ==
    /\ SetEngine(reset(Eng))
    /\ Observe("Reset", FALSE, FALSE)
    /\ UNCHANGED m_threshold

\* Activate button pressed, no double click (lines 243-246), starting a take.
Start ==
    /\ m_state \notin {RECORDING, WAITING}
    /\ SetEngine(startRecording(Eng))
    /\ Observe("Start", FALSE, startAccepted(Eng))
    /\ UNCHANGED m_threshold

\* Activate button pressed, no double click (lines 243-246), finishing a take.
Stop ==
    /\ m_state \in {RECORDING, WAITING}
    /\ SetEngine(finishRecording(Eng))
    /\ Observe("Stop", m_state = RECORDING, FALSE)
    /\ UNCHANGED m_threshold

\* Reset button pressed, no double click (lines 261-264), finishing a take.
ResetStop ==
    /\ m_state \in {RECORDING, WAITING}
    /\ SetEngine(finishRecording(Eng))
    /\ Observe("ResetStop", m_state = RECORDING, FALSE)
    /\ UNCHANGED m_threshold

\* Reset button pressed, no double click (lines 261-264), otherwise: undo().
ResetUndo ==
    /\ m_state \notin {RECORDING, WAITING}
    /\ \E t \in undo(Eng) : SetEngine(t)
    /\ Observe("ResetUndo", FALSE, FALSE)
    /\ UNCHANGED m_threshold

\* Undo button pressed (lines 269-274)
Undo ==
    /\ \E t \in undo(Eng) : SetEngine(t)
    /\ Observe("Undo", m_state = RECORDING, FALSE)
    /\ UNCHANGED m_threshold

\* Redo button pressed (lines 278-283)
Redo ==
    /\ \E t \in redo(Eng) : SetEngine(t)
    /\ Observe("Redo", FALSE, FALSE)
    /\ UNCHANGED m_threshold

\* Dub button pressed, no double click (lines 297-299)
DubButton ==
    LET s1 == IF m_state \in {RECORDING, WAITING} THEN finishRecording(Eng) ELSE Eng
    IN  /\ SetEngine(startRecording(s1))
        /\ Observe("Dub", m_state = RECORDING, startAccepted(s1))
        /\ UNCHANGED m_threshold

\* Looper::run for a block of one sample: updateParameters reads the
\* threshold port (line 639), then one iteration of the sample loop.
Sample ==
    \E db \in ThresholdDbs, amp \in Amplitudes :
        LET thr == dbToFloat(db)
            g == sampleGate(Eng, thr, amp)
            c == sampleAdvance(sampleCapture(g))
            rec == m_state # INACTIVE /\ g.state = RECORDING
            fin == m_state # INACTIVE /\ loopEnd(c) /\ c.state = RECORDING
            beg == fin /\ c.nrOfDubs + 1 > 1 /\ startAccepted(finishRecording(c))
            t == runSample(Eng, thr, amp)
        IN  /\ SetEngine(t)
            /\ m_threshold' = thr
            /\ lastOp' = "Sample"
            /\ lastAmp' = amp
            /\ capAt' = IF rec THEN m_nrOfUsedSamples ELSE -1
            /\ capSlot' = IF rec THEN m_nrOfDubs ELSE -1
            /\ committed' = fin
            /\ began' = beg
            /\ undoSnap' = NoSnap
            /\ redoEpoch' = redoEpoch
            /\ sinceStart' = ((sinceStart /\ ~fin) \/ beg)
            /\ sinceReset' = (sinceReset /\ ~fin)
            /\ script' = IF script[1] = "started" /\ thr = 0 /\ ~fin
                         THEN <<"started", script[2] + 1>>
                         ELSE <<"off", 0>>

Next ==
    \/ Reset
    \/ Start
    \/ Stop
    \/ ResetStop
    \/ ResetUndo
    \/ Undo
    \/ Redo
    \/ DubButton
    \/ Sample

Spec == Init /\ [][Next]_vars

(***************************************************************************)
(* The engine with OverdubDubs slots, so that a take can be chained behind *)
(* a committed overdub (line 386 asks for more than one active track),     *)
(* driven by every command but Redo.                                       *)
(***************************************************************************)
OverdubInit ==
    /\ EngineInitWith(OverdubDubs)
    /\ m_storage = <<>>
    /\ fadeDub = Dub
    /\ fadeS = 0
    /\ fadePhase = "none"
    /\ ButtonInit

OverdubNext ==
    \/ Reset
    \/ Start
    \/ Stop
    \/ ResetStop
    \/ ResetUndo
    \/ Undo
    \/ DubButton
    \/ Sample

OverdubSpec == OverdubInit /\ [][OverdubNext]_vars

(***************************************************************************)
(* One button over the calls of Looper::run: the host sets the button's    *)
(* port, updateParameters runs the button with m_now (lines 309, 641-645)  *)
(* and then the clock advances by the block's duration (line 311).  The    *)
(* engine is not followed here.                                            *)
(***************************************************************************)
ButtonStart ==
    /\ EngineInit
    /\ m_storage = <<>>
    /\ fadeDub = Dub
    /\ fadeS = 0
    /\ fadePhase = "none"
    /\ ButtonInit

ButtonRun ==
    \E pressed \in BOOLEAN, d \in BlockTicks :
        LET r == buttonRun(Button, pressed, m_now)
        IN  /\ m_now + d <= MaxNow
            /\ m_lastState' = r.button.lastState
            /\ m_lastChangeTime' = r.button.lastChangeTime
            /\ m_lastClickTime' = r.button.lastClickTime
            /\ callback' = r.cb
            /\ m_now' = m_now + d
            /\ cbNow' = m_now
            /\ cbChanged' = (pressed # m_lastState)
            /\ cbEarlier' = pressedAt
            /\ pressedAt' = IF pressed /\ ~m_lastState THEN m_now ELSE pressedAt
            /\ UNCHANGED <<engineVars, obsVars, fadeVars>>

ButtonNext == ButtonRun

ButtonSpec == ButtonStart /\ [][ButtonNext]_vars

(***************************************************************************)
(* The boundary fade of finishRecording as a function of the take: a take  *)
(* of any length up to MaxTakeLength has been captured, every stored       *)
(* sample as it came in, and finishRecording has reached its fade loop.    *)
(* One step is one iteration of the loop; the engine counters are not      *)
(* followed here.                                                          *)
(***************************************************************************)
FadeInit ==
    /\ EngineInit
    /\ fadeDub \in [m_storageOffset : FadeOffsets, m_length : 1 .. MaxTakeLength,
                     m_startIndex : {0}]
    /\ m_storage = [i \in 0 .. fadeDub.m_storageOffset + fadeDub.m_length - 1 |-> <<1, 1>>]
    /\ fadeS = 0
    /\ fadePhase = "fading"
    /\ ButtonInit

\* lines 562-571: one iteration of the fade loop
FadeIterate ==
    /\ fadePhase = "fading"
    /\ fadeS < blendLength(fadeDub)
    /\ m_storage' = fadeStep(m_storage, fadeS, blendLength(fadeDub), fadeDub)
    /\ fadeS' = fadeS + 1
    /\ UNCHANGED <<fadeDub, fadePhase, engineVars, obsVars, buttonVars>>

\* line 562: the loop condition fails, the take is committed
FadeFinish ==
    /\ fadePhase = "fading"
    /\ fadeS >= blendLength(fadeDub)
    /\ fadePhase' = "committed"
    /\ UNCHANGED <<m_storage, fadeDub, fadeS, engineVars, obsVars, buttonVars>>

FadeNext == FadeIterate \/ FadeFinish

FadeSpec == FadeInit /\ [][FadeNext]_vars

(***************************************************************************)
(* Properties                                                              *)
(***************************************************************************)
engineState == <<m_state, m_currentLoopIndex, m_loopLength, m_nrOfUsedSamples,
                 m_nrOfDubs, m_maxUsedDubs, m_dubs>>

\* C1: in every reachable state activeCount <= maxRecordedCount <= maxDubs.
C1_CountsOrdered ==
    /\ m_nrOfDubs <= m_maxUsedDubs
    /\ m_maxUsedDubs <= NR_OF_DUBS

\* C2: in every reachable state 0 <= usedSamples <= C, and a captured sample
\* is written at an index below C.
C2_ArenaBounded ==
    /\ 0 <= m_nrOfUsedSamples
    /\ m_nrOfUsedSamples <= StorageSize
    /\ (capAt # -1 => capAt < StorageSize)

\* C3: in every reachable state, activeCount = 0 implies loopLength = 0 and
\* loopPosition = 0.
C3_EmptyLedgerNoLoop ==
    m_nrOfDubs = 0 => (m_loopLength = 0 /\ m_currentLoopIndex = 0)

\* C3 witness: an Undo has just deactivated the sole track of a loop of
\* positive length, at a position past the loop start.
C3_Witness ==
    /\ lastOp = "Undo"
    /\ m_nrOfDubs = 0
    /\ undoSnap.nrOfDubs = 1
    /\ undoSnap.loopLength > 0
    /\ undoSnap.currentLoopIndex > 0

\* C4: whenever loopLength > 0, loopPosition lies in [0, loopLength) at the
\* start of every processed sample.
C4_PositionInLoop ==
    m_loopLength > 0 => (0 <= m_currentLoopIndex /\ m_currentLoopIndex < m_loopLength)

\* C5 (as claimed): once activeCount >= 1, loopLength equals the length of
\* slot 0 and keeps its value over every step that is not a Reset.
C5_LoopLengthUntilReset ==
    [][ /\ (m_nrOfDubs' >= 1 => m_loopLength' = m_dubs'[0].m_length)
        /\ ((m_nrOfDubs >= 1 /\ lastOp' # "Reset") => m_loopLength' = m_loopLength)
      ]_vars

\* C5 (amended): while activeCount >= 1, loopLength equals the length of
\* slot 0; a step that leaves activeCount >= 1 leaves loopLength unchanged;
\* loopLength changes from a state with activeCount >= 1 only by being
\* cleared, by a Reset or by an Undo that brings activeCount to 0.
C5_LoopLengthWhileActive ==
    [][ /\ (m_nrOfDubs' >= 1 => m_loopLength' = m_dubs'[0].m_length)
        /\ ((m_nrOfDubs >= 1 /\ m_nrOfDubs' >= 1) => m_loopLength' = m_loopLength)
        /\ ((m_nrOfDubs >= 1 /\ m_loopLength' # m_loopLength) =>
               /\ m_loopLength' = 0
               /\ m_nrOfDubs' = 0
               /\ lastOp' \in {"Reset", "Undo", "ResetUndo"})
      ]_vars

\* C5 witness: a Redo has reactivated a second track whose length differs
\* from the loop length, and the loop length is still that of slot 0.
C5_Witness ==
    /\ lastOp = "Redo"
    /\ m_nrOfDubs = 2
    /\ m_loopLength > 0
    /\ m_dubs[1].m_length # m_dubs[0].m_length
    /\ m_dubs[1].m_length > 0

\* C6: after an Undo, once a Start or Dub command has begun a new take, every
\* Redo leaves the engine unchanged until the next Undo.
C6_RedoBarredAfterTake ==
    [][ (redoEpoch = "taken" /\ lastOp' = "Redo") => UNCHANGED engineState ]_vars

\* C7 (as claimed): from any state, Undo immediately followed by Redo restores
\* activeCount and loopLength and leaves loopPosition where it was or at 0.
C7_UndoRedoRestores ==
    (lastOp = "Redo" /\ undoSnap # NoSnap) =>
        /\ m_nrOfDubs = undoSnap.nrOfDubs
        /\ m_loopLength = undoSnap.loopLength
        /\ m_currentLoopIndex \in {undoSnap.currentLoopIndex, 0}

\* C7 (amended): from any state that is not RECORDING and has
\* activeCount >= 1, Undo immediately followed by Redo restores activeCount
\* and loopLength and leaves loopPosition where it was or at 0.
C7_UndoRedoRestoresActive ==
    (/\ lastOp = "Redo"
     /\ undoSnap # NoSnap
     /\ undoSnap.state # RECORDING
     /\ undoSnap.nrOfDubs >= 1) =>
        /\ m_nrOfDubs = undoSnap.nrOfDubs
        /\ m_loopLength = undoSnap.loopLength
        /\ m_currentLoopIndex \in {undoSnap.currentLoopIndex, 0}

\* C7 witness: Undo of the sole track of a playing loop, then Redo.
C7_Witness ==
    /\ lastOp = "Redo"
    /\ undoSnap # NoSnap
    /\ undoSnap.state = PLAYING
    /\ undoSnap.nrOfDubs = 1
    /\ undoSnap.loopLength > 1
    /\ undoSnap.currentLoopIndex > 0
    /\ m_nrOfDubs = 1

\* C8: with activeCount = maxDubs, the Start/Stop toggle and the Dub command
\* change neither activeCount nor the engine state.
C8_CapacityCeiling ==
    [][ (m_nrOfDubs = NR_OF_DUBS /\ lastOp' \in {"Start", "Stop", "Dub"}) =>
            (m_nrOfDubs' = m_nrOfDubs /\ m_state' = m_state) ]_vars

\* C9: after Start, while every processed sample is below the threshold the
\* state stays WAITING_FOR_THRESHOLD, usedSamples does not grow and the
\* reserved track's length stays 0; the first sample that meets or exceeds
\* the threshold (every sample at threshold 0) is captured at usedSamples
\* into the reserved track with startIndex the current loopPosition, the state
\* being RECORDING unless the take is committed within the same sample.
C9_ThresholdGate ==
    [][ (sinceStart /\ m_state = WAITING /\ lastOp' = "Sample") =>
          /\ m_dubs[m_nrOfDubs].m_length = 0
          /\ m_dubs[m_nrOfDubs].m_storageOffset = m_nrOfUsedSamples
          /\ IF lastAmp' < m_threshold'
             THEN /\ m_state' = WAITING
                  /\ m_nrOfUsedSamples' = m_nrOfUsedSamples
                  /\ m_dubs' = m_dubs
                  /\ capAt' = -1
             ELSE /\ capAt' = m_nrOfUsedSamples
                  /\ capSlot' = m_nrOfDubs
                  /\ m_nrOfUsedSamples' = m_nrOfUsedSamples + 1
                  /\ m_dubs'[m_nrOfDubs].m_startIndex = m_currentLoopIndex
                  /\ m_dubs'[m_nrOfDubs].m_length = 1
                  /\ (m_state' = RECORDING \/ committed')
      ]_vars

\* C9 witness: an overdub, reserved and not touched by a command since, has
\* just been triggered past the loop start by a sample that equals a raised
\* threshold.
C9_Witness ==
    /\ lastOp = "Sample"
    /\ sinceStart
    /\ m_state = RECORDING
    /\ m_threshold > 0
    /\ lastAmp = m_threshold
    /\ m_nrOfDubs = 1
    /\ m_dubs[1].m_length = 1
    /\ m_dubs[1].m_startIndex > 0

\* C10: a Reset yields activeCount, maxRecordedCount, usedSamples, loopLength
\* and loopPosition 0 and state INACTIVE, and a Redo leaves the engine
\* unchanged as long as no take has been committed since.
C10_Reset ==
    [][ /\ (lastOp' = "Reset" =>
               /\ m_nrOfDubs' = 0
               /\ m_maxUsedDubs' = 0
               /\ m_nrOfUsedSamples' = 0
               /\ m_loopLength' = 0
               /\ m_currentLoopIndex' = 0
               /\ m_state' = INACTIVE)
        /\ ((sinceReset /\ lastOp' = "Redo") => UNCHANGED engineState)
      ]_vars

\* C10 witness: a Redo after a Reset that cleared two recorded tracks.
C10_Witness ==
    /\ lastOp = "Redo"
    /\ sinceReset
    /\ m_state = INACTIVE
    /\ m_dubs[0].m_length > 0
    /\ m_dubs[1].m_length > 0

C12_RedoRestartsPlayback ==
    [][ (lastOp' = "Redo" /\ m_nrOfDubs = 0 /\ m_nrOfDubs' = 1) =>
          /\ m_loopLength' = m_dubs'[0].m_length
          /\ m_currentLoopIndex' = 0
          /\ (0 \in mixedDubs(Eng))'
          /\ (\A db \in ThresholdDbs, amp \in Amplitudes :
                 runSample(Eng, dbToFloat(db), amp).currentLoopIndex = 1)'
      ]_vars

\* C13: an Undo issued while RECORDING commits the take and deactivates it:
\* afterwards activeCount is what it was, maxRecordedCount = activeCount + 1,
\* usedSamples is the storageOffset of the take's slot, the state is PLAYING
\* (not RECORDING) and no slot was changed; a Redo that follows immediately
\* reactivates the take with the recorded length: activeCount is one more,
\* usedSamples is the end of the take's range, and the first take gives the
\* loop its length again.
C13_UndoWhileRecording ==
    (undoSnap.state = RECORDING) =>
        /\ m_state = PLAYING
        /\ m_maxUsedDubs = undoSnap.nrOfDubs + 1
        /\ m_dubs = undoSnap.dubs
        /\ \E take \in DubRead(undoSnap.dubs, undoSnap.nrOfDubs) :
              IF lastOp = "Undo"
              THEN /\ m_nrOfDubs = undoSnap.nrOfDubs
                   /\ m_nrOfUsedSamples = take.m_storageOffset
              ELSE /\ lastOp = "Redo"
                   /\ m_nrOfDubs = undoSnap.nrOfDubs + 1
                   /\ m_nrOfUsedSamples = take.m_storageOffset + take.m_length
                   /\ (undoSnap.nrOfDubs = 0 => m_loopLength = take.m_length)

\* C13 witness: an overdub behind a first track of one sample was undone
\* while it was being recorded, and the Redo that followed has reactivated it.
C13_Witness ==
    /\ lastOp = "Redo"
    /\ undoSnap.state = RECORDING
    /\ undoSnap.nrOfDubs = 1
    /\ m_nrOfDubs = 2
    /\ m_dubs[0].m_length = 1
    /\ m_dubs[1].m_length = 1
    /\ m_dubs[1].m_storageOffset = 1
    /\ m_nrOfUsedSamples = 2

\* C14: a rejected Undo or Redo leaves the whole engine unchanged (state,
\* activeCount, maxRecordedCount, usedSamples, loopLength, loopPosition and
\* every slot): a Redo when activeCount = maxRecordedCount or while RECORDING,
\* an Undo when activeCount = 0 and the state is not RECORDING.
C14_RejectedUndoRedo ==
    [][ /\ ((lastOp' = "Redo" /\ (m_nrOfDubs = m_maxUsedDubs \/ m_state = RECORDING)) =>
               UNCHANGED engineState)
        /\ ((lastOp' \in UndoOps /\ m_nrOfDubs = 0 /\ m_state # RECORDING) =>
               UNCHANGED engineState)
      ]_vars

\* C14 witness: a Redo was issued while a take was being recorded over a
\* track that an Undo had left to redo, and the track is still only redoable.
C14_Witness ==
    /\ lastOp = "Redo"
    /\ m_state = RECORDING
    /\ m_nrOfDubs = 1
    /\ m_maxUsedDubs = 2
    /\ m_dubs[1].m_length = 1

\* C15: a processed sample whose capture makes usedSamples reach C commits
\* the take within the same step (activeCount one more, usedSamples = C, the
\* state PLAYING, no new take begun); and while usedSamples = C a Start or Dub
\* command issued in INACTIVE or PLAYING leaves the whole engine unchanged.
C15_ArenaFull ==
    [][ /\ ((lastOp' = "Sample" /\ capAt' = StorageSize - 1) =>
               /\ committed'
               /\ ~began'
               /\ m_nrOfDubs' = m_nrOfDubs + 1
               /\ m_nrOfUsedSamples' = StorageSize
               /\ m_state' = PLAYING)
        /\ ((/\ m_nrOfUsedSamples = StorageSize
             /\ m_state \in {INACTIVE, PLAYING}
             /\ lastOp' \in {"Start", "Dub"}) =>
               (UNCHANGED engineState /\ ~began'))
      ]_vars

\* C15 witness: the first take filled the arena and was committed by the
\* sample that filled it; a Dub command then found one track active, a free
\* slot and no memory, and began nothing.
C15_Witness ==
    /\ lastOp = "Dub"
    /\ m_state = PLAYING
    /\ m_nrOfDubs = 1
    /\ m_nrOfDubs < NR_OF_DUBS
    /\ m_nrOfUsedSamples = StorageSize
    /\ m_dubs[0].m_length = StorageSize

\* C16: a processed sample that stays below the threshold while the state is
\* WAITING_FOR_THRESHOLD and wraps the loop (loopPosition back to 0) leaves
\* the state WAITING_FOR_THRESHOLD and activeCount, maxRecordedCount and
\* usedSamples unchanged; this holds of every such step, so of any number of
\* consecutive wraps.
C16_WrapWhileWaiting ==
    [][ (/\ lastOp' = "Sample"
         /\ m_state = WAITING
         /\ lastAmp' < m_threshold'
         /\ loopEnd(sampleAdvance(Eng))) =>
            /\ m_currentLoopIndex' = 0
            /\ m_state' = WAITING
            /\ m_nrOfDubs' = m_nrOfDubs
            /\ m_maxUsedDubs' = m_maxUsedDubs
            /\ m_nrOfUsedSamples' = m_nrOfUsedSamples
      ]_vars

\* C16 witness: an overdub reserved over a playing loop of positive length
\* still waits for the threshold after a silent sample has wrapped the loop.
C16_Witness ==
    /\ lastOp = "Sample"
    /\ sinceStart
    /\ m_state = WAITING
    /\ lastAmp < m_threshold
    /\ m_nrOfDubs = 1
    /\ m_loopLength > 0
    /\ m_currentLoopIndex = 0

\* C17: after the commit of a take of length >= 32, the first and the last
\* stored sample of the take are scaled by exactly 0, the samples at offset 16
\* from either edge by 16/32 = 0.5, and every sample further than 32 from
\* both edges is left as captured.
C17_BoundaryFade ==
    (fadePhase = "committed" /\ fadeDub.m_length >= 32) =>
        LET first == fadeDub.m_storageOffset
            last == fadeDub.m_storageOffset + fadeDub.m_length - 1
        IN  /\ m_storage[first][1] = 0
            /\ m_storage[last][1] = 0
            /\ 2 * m_storage[first + 16][1] = m_storage[first + 16][2]
            /\ 2 * m_storage[last - 16][1] = m_storage[last - 16][2]
            /\ \A i \in first .. last :
                  (i - first > 32 /\ last - i > 32) => m_storage[i][1] = m_storage[i][2]

\* C18: a Start command issued in INACTIVE or PLAYING with activeCount <
\* maxDubs and usedSamples < C sets the state to WAITING_FOR_THRESHOLD and the
\* slot at index activeCount to storageOffset = usedSamples and length = 0,
\* and leaves activeCount, maxRecordedCount, usedSamples, loopLength,
\* loopPosition and every slot below activeCount unchanged.
C18_StartFrame ==
    [][ (/\ lastOp' = "Start"
         /\ m_state \in {INACTIVE, PLAYING}
         /\ m_nrOfDubs < NR_OF_DUBS
         /\ m_nrOfUsedSamples < StorageSize) =>
            /\ began'
            /\ m_state' = WAITING
            /\ m_dubs'[m_nrOfDubs].m_storageOffset = m_nrOfUsedSamples
            /\ m_dubs'[m_nrOfDubs].m_length = 0
            /\ m_nrOfDubs' = m_nrOfDubs
            /\ m_maxUsedDubs' = m_maxUsedDubs
            /\ m_nrOfUsedSamples' = m_nrOfUsedSamples
            /\ m_loopLength' = m_loopLength
            /\ m_currentLoopIndex' = m_currentLoopIndex
            /\ \A i \in DOMAIN m_dubs : i < m_nrOfDubs => m_dubs'[i] = m_dubs[i]
      ]_vars

\* C18 witness: a Start over a playing track, past the loop start, has
\* reserved the slot of a track that an Undo had left to redo.
C18_Witness ==
    /\ lastOp = "Start"
    /\ began
    /\ m_state = WAITING
    /\ m_nrOfDubs = 1
    /\ m_maxUsedDubs = 2
    /\ redoEpoch = "taken"
    /\ m_currentLoopIndex > 0
    /\ m_nrOfUsedSamples > 0
    /\ m_dubs[1].m_storageOffset = m_nrOfUsedSamples
    /\ m_dubs[1].m_length = 0

\* C19: from the constructed engine, Start, N samples at the threshold floor
\* (1 <= N < C) and Stop yield state PLAYING, activeCount = maxRecordedCount
\* = 1, usedSamples = loopLength = N, loopPosition = 0 and slot 0 with
\* storageOffset 0, startIndex 0 and length N.  Every commit of a RECORDING
\* take increments activeCount, sets maxRecordedCount to the new activeCount
\* and sets the state to PLAYING; what the same handler does after the commit
\* comes on top: an Undo deactivates the take again, a Dub command or a
\* chained overdub reserves the next take (WAITING_FOR_THRESHOLD).
C19_FirstTakeAndCommit ==
    [][ /\ ((script'[1] = "stopped" /\ script'[2] >= 1 /\ script'[2] < StorageSize) =>
               /\ m_state' = PLAYING
               /\ m_nrOfDubs' = 1
               /\ m_maxUsedDubs' = 1
               /\ m_nrOfUsedSamples' = script'[2]
               /\ m_loopLength' = script'[2]
               /\ m_currentLoopIndex' = 0
               /\ m_dubs'[0] = [m_storageOffset |-> 0, m_length |-> script'[2],
                                m_startIndex |-> 0])
        /\ (committed' =>
               /\ m_maxUsedDubs' = m_nrOfDubs + 1
               /\ m_nrOfDubs' = IF lastOp' \in UndoOps THEN m_nrOfDubs ELSE m_nrOfDubs + 1
               /\ m_state' = IF began' THEN WAITING ELSE PLAYING)
      ]_vars

\* C19 witness: Start, two samples at the threshold floor and Stop from the
\* constructed engine.
C19_Witness ==
    /\ script = <<"stopped", 2>>
    /\ lastOp = "Stop"
    /\ committed
    /\ m_nrOfDubs = 1

\* C20: a Dub command finishes a take in progress: activeCount is one more
\* iff the state was RECORDING and unchanged from WAITING_FOR_THRESHOLD,
\* PLAYING and INACTIVE.  Then, if activeCount < maxDubs and usedSamples < C,
\* the state is WAITING_FOR_THRESHOLD and the slot at the new activeCount is
\* reserved with storageOffset = usedSamples and length 0; otherwise no take
\* is begun: no slot is written and the state is the one the finish left.
C20_DubCommand ==
    [][ lastOp' = "Dub" =>
          /\ committed' = (m_state = RECORDING)
          /\ m_nrOfDubs' = IF m_state = RECORDING THEN m_nrOfDubs + 1 ELSE m_nrOfDubs
          /\ m_nrOfUsedSamples' = m_nrOfUsedSamples
          /\ IF m_nrOfDubs' < NR_OF_DUBS /\ m_nrOfUsedSamples' < StorageSize
             THEN /\ began'
                  /\ m_state' = WAITING
                  /\ m_dubs'[m_nrOfDubs'].m_storageOffset = m_nrOfUsedSamples'
                  /\ m_dubs'[m_nrOfDubs'].m_length = 0
             ELSE /\ ~began'
                  /\ m_dubs' = m_dubs
                  /\ m_state' = CASE m_state = RECORDING -> PLAYING
                                  [] m_state = WAITING ->
                                       IF m_nrOfDubs = 0 THEN INACTIVE ELSE PLAYING
                                  [] OTHER -> m_state
      ]_vars

\* C20 witness: a Dub command has committed the first take of one sample and
\* reserved the slot behind it.
C20_Witness ==
    /\ lastOp = "Dub"
    /\ committed
    /\ began
    /\ m_state = WAITING
    /\ m_nrOfDubs = 1
    /\ m_loopLength = 1
    /\ m_dubs[1].m_storageOffset = 1
    /\ m_dubs[1].m_length = 0

C22_UndoFrame ==
    [][ (lastOp' \in UndoOps /\ m_nrOfDubs >= 1 /\ m_state # RECORDING) =>
          /\ m_nrOfDubs' = m_nrOfDubs - 1
          /\ \E dub \in DubRead(m_dubs, m_nrOfDubs - 1) :
                m_nrOfUsedSamples' = dub.m_storageOffset
          /\ IF m_nrOfDubs' = 0
             THEN m_loopLength' = 0 /\ m_currentLoopIndex' = 0
             ELSE m_loopLength' = m_loopLength /\ m_currentLoopIndex' = m_currentLoopIndex
          /\ m_maxUsedDubs' = m_maxUsedDubs
          /\ m_dubs' = m_dubs
      ]_vars

\* C22 witness: an Undo has deactivated the second of two playing tracks past
\* the loop start; the loop goes on and the track's samples are given back.
C22_Witness ==
    /\ lastOp = "Undo"
    /\ undoSnap.state = PLAYING
    /\ undoSnap.nrOfDubs = 2
    /\ m_nrOfDubs = 1
    /\ m_maxUsedDubs = 2
    /\ m_loopLength >= 1
    /\ m_currentLoopIndex >= 1
    /\ m_dubs[1].m_length >= 1
    /\ m_nrOfUsedSamples = m_dubs[1].m_storageOffset

\* C23: whenever the state is WAITING_FOR_THRESHOLD or RECORDING, the slot
\* being recorded lies in the dub array (activeCount < maxDubs) and is the
\* freshly reserved one: its storageOffset + length = usedSamples.
C23_RecordingSlotFresh ==
    m_state \in {WAITING, RECORDING} =>
        /\ m_nrOfDubs < NR_OF_DUBS
        /\ m_dubs[m_nrOfDubs].m_storageOffset + m_dubs[m_nrOfDubs].m_length
             = m_nrOfUsedSamples

\* C24: in every reachable state the storage ranges
\* [storageOffset, storageOffset + length) of the active tracks (slots below
\* activeCount) lie in ascending slot order without overlap and within
\* [0, usedSamples).
C24_ActiveRangesDisjoint ==
    LET active == { i \in DOMAIN m_dubs : i < m_nrOfDubs }
    IN  /\ \A i \in active :
              /\ 0 <= m_dubs[i].m_storageOffset
              /\ m_dubs[i].m_storageOffset + m_dubs[i].m_length <= m_nrOfUsedSamples
        /\ \A i, j \in active :
              i < j => m_dubs[i].m_storageOffset + m_dubs[i].m_length
                         <= m_dubs[j].m_storageOffset

\* C25: a slot that is undone but redoable (activeCount <= i <
\* maxRecordedCount) has length >= 1 and keeps its storageOffset, length and
\* startIndex over every step after which it is still redoable; so
\* activeCount >= 1 implies loopLength >= 1.
C25_RedoableSlotsFrozen ==
    [][ /\ \A i \in DOMAIN m_dubs :
              (/\ m_nrOfDubs <= i /\ i < m_maxUsedDubs
               /\ m_nrOfDubs' <= i /\ i < m_maxUsedDubs') =>
                  (m_dubs'[i] = m_dubs[i] /\ m_dubs[i].m_length >= 1)
        /\ (m_nrOfDubs' >= 1 => m_loopLength' >= 1)
      ]_vars

\* C26: while the state is PLAYING with activeCount >= 1 and loopLength >= 1,
\* every processed sample advances loopPosition by one or, at the end of the
\* loop, takes it back to 0, so that the positions in [0, loopLength) are
\* visited in turn again and again; also when the arena is full.
C26_PlaybackCycles ==
    [][ (/\ lastOp' = "Sample"
         /\ m_state = PLAYING
         /\ m_nrOfDubs >= 1
         /\ m_loopLength >= 1) =>
            \/ m_currentLoopIndex' = m_currentLoopIndex + 1
            \/ (m_currentLoopIndex' = 0 /\ m_currentLoopIndex + 1 >= m_loopLength)
      ]_vars

\* C27: the button's callback fires only in a run in which the button's
\* value changed, and it reports a double click only for a press that an
\* earlier press of the button preceded by less than one second; the first
\* press after instantiation is not a double click.
C27_DoubleClick ==
    /\ (callback # NoCallback => cbChanged)
    /\ (callback.doubleClick =>
           /\ callback.pressed
           /\ cbEarlier # -1
           /\ cbNow - cbEarlier < TicksPerSecond)

====
